---- MODULE Spec2Model ----
(***************************************************************************)
(* Model of src/src/middleware.js: the res.send interceptor and the        *)
(* request/response logging middleware, running on a single-threaded       *)
(* event loop.  Synchronous code is a call stack of frames executed one    *)
(* statement at a time; the host (handlers, other components, transport)   *)
(* acts in turns of its own, after next() handed control to it.            *)
(***************************************************************************)
EXTENDS Naturals, Sequences, FiniteSets

\* ------------------------------------------------------------- bounds
NumExchanges == 2
\* host choices explored in one run, all exchanges together: handler calls of
\* res.send or of a kept interceptor, wrappers installed, logger failures
MaxHostEvents == 2
\* frames the call stack has room for when a handler calls res.send; a call
\* beyond it raises a RangeError, as the engine does on stack exhaustion
MaxDepth == 3

\* ------------------------------------------------------------- values
Exchanges == 1..NumExchanges
Undefined == "undefined"
None == "none"
\* payloads a handler sends: a structured value and a string; Json is what the
\* framework's send turns a structured value into before it re-sends it
Contents == {"obj", "str"}
Json == "json"
\* what the original res.send returns (the framework returns the response itself)
RetVals == {"res"}
LoggerFn == "fn"
Loggers == {LoggerFn, Undefined}
\* inbound requests, in arrival order (they repeat after the last)
Inbound == << [method |-> "GET", url |-> "/api/health", hostname |-> "localhost"],
              [method |-> "POST", url |-> "/", hostname |-> "example.com"],
              [method |-> "GET", url |-> "/", hostname |-> "localhost"] >>
RequestOf(e) == Inbound[((e - 1) % Len(Inbound)) + 1]
NoReq == [method |-> None, url |-> None, hostname |-> None]

NoRet == [kind |-> None, val |-> None]
Returned(v) == [kind |-> "return", val |-> v]
Thrown(v) == [kind |-> "throw", val |-> v]

\* function values that can sit in res.send or on the call stack
Orig == <<"orig">>
Icpt(e, s) == <<"icpt", e, s>>
Wrap(p) == <<"wrap", p>>
Mw == <<"mw">>

VARIABLES
  logger,        \* the logger option the middleware was built with ("unbuilt" before)
  constructError,\* whether requestLoggerMiddleware(...) itself raised
  req,           \* req[e]: the request of exchange e (NoReq before it arrives)
  send,          \* send[e]: the function installed in res.send
  contentBody,   \* contentBody[e]: res.contentBody
  listeners,     \* listeners[e]: number of "finish" listeners registered on res
  finished,      \* finished[e]: the transport emitted "finish"
  log,           \* what the logger was handed, in order
  stack,         \* the synchronous call stack
  ret,           \* completion of the last callee, for the frame that awaits it
  nextCalls,     \* nextCalls[e]: how often next() was invoked
  hist,          \* hist[e]: handler-level events of the exchange, in order
  origCalls,     \* origCalls[e]: contents the original res.send was invoked with
  icptRuns,      \* icptRuns[e]: how often the interceptor body started
  outcome,       \* completions of the last interceptor run: its delegate's and its own
  errs,          \* errs[e]: errors surfaced from the middleware / the listener
  icptRef,       \* icptRef[e]: the interceptor the middleware built (None before)
  wrapped        \* wrapped[e]: another component wrapped res.send after the middleware

vars == <<logger, constructError, req, send, contentBody, listeners, finished, log,
          stack, ret, nextCalls, hist, origCalls, icptRuns, outcome, errs, icptRef,
          wrapped>>

\* ------------------------------------------------------------- helpers
Top == stack[Len(stack)]
Pop == SubSeq(stack, 1, Len(stack) - 1)
Frame(f, e, pc, c) == [fn |-> f, e |-> e, pc |-> pc, arg |-> c, wait |-> FALSE]
SetTop(pc, w) == [stack EXCEPT ![Len(stack)] = [@ EXCEPT !.pc = pc, !.wait = w]]
Running(kind) == stack # <<>> /\ Top.fn[1] = kind
At(kind, pc) == Running(kind) /\ Top.pc = pc /\ ~Top.wait
Awaiting(kind) == Running(kind) /\ Top.wait /\ ret.kind # None

\* what the last handler call observed of the interceptor: the completion of the
\* delegated call and the interceptor's own, the response and content it ran
\* with, and the length of the log when the handler made the call
NoOutcome == [orig |-> NoRet, icpt |-> NoRet, e |-> 0, c |-> None, mark |-> 0]

\* ------------------------------------------------------------- Init
Init ==
  /\ logger = "unbuilt"
  /\ constructError = FALSE
  /\ req = [e \in Exchanges |-> NoReq]
  /\ send = [e \in Exchanges |-> Orig]
  /\ contentBody = [e \in Exchanges |-> Undefined]
  /\ listeners = [e \in Exchanges |-> 0]
  /\ finished = [e \in Exchanges |-> FALSE]
  /\ log = <<>>
  /\ stack = <<>>
  /\ ret = NoRet
  /\ nextCalls = [e \in Exchanges |-> 0]
  /\ hist = [e \in Exchanges |-> <<>>]
  /\ origCalls = [e \in Exchanges |-> <<>>]
  /\ icptRuns = [e \in Exchanges |-> 0]
  /\ outcome = NoOutcome
  /\ errs = [e \in Exchanges |-> [mw |-> None, listener |-> None]]
  /\ icptRef = [e \in Exchanges |-> <<None>>]
  /\ wrapped = [e \in Exchanges |-> FALSE]

\* ------------------------------------------------------------- the code
\* requestLoggerMiddleware({ logger }) builds the closure and validates nothing
ConstructRaises(lg) == FALSE

\* variants of the statement order: the receipt log forgotten, the interceptor
\* installed before the receipt log, next() invoked before the interceptor is in
\* place, the listener forgotten, the receipt log made last
MwOrderNoReceipt == <<"install", "on", "next">>
MwOrderInstallFirst == <<"install", "log", "on", "next">>
MwOrderNextEarly == <<"log", "next", "install", "on">>
MwOrderNoListener == <<"log", "install", "next">>
MwOrderLogLast == <<"install", "on", "next", "log">>

\* the statements of the middleware body, in program order
MwOrder == <<"log", "install", "on", "next">>

\* variant: the content is stored only after the delegated call has returned
IcptOrderCaptureLast == <<"restore", "delegate", "capture">>

\* the statements of the interceptor body, in program order
IcptOrder == <<"capture", "restore", "delegate">>

After(order, s) ==
  LET i == CHOOSE k \in 1..Len(order) : order[k] = s
  IN IF i < Len(order) THEN order[i + 1] ELSE "done"

\* logger("RECV <<<", req.method, req.url, req.hostname)
ReceiptEntry(e, rq) ==
  [marker |-> "RECV <<<", ex |-> e, vals |-> <<rq.method, rq.url, rq.hostname>>]

\* variant: the status code is logged in place of the captured content
SendEntryStatus(e, cb) == [marker |-> "SEND >>>", ex |-> e, vals |-> <<"200">>]

\* logger("SEND >>>", res.contentBody)
SendEntry(e, cb) == [marker |-> "SEND >>>", ex |-> e, vals |-> <<cb>>]

\* variant: the interceptor is installed over itself
InstalledSendTwice(e, cur) == Icpt(e, Icpt(e, cur))

\* res.send = resDotSendInterceptor(res, res.send)
InstalledSend(e, cur) == Icpt(e, cur)

\* variants: the content is not stored; only a first content is stored
IcptCaptureSkipped(old, c) == old
IcptCaptureOnce(old, c) == IF old = Undefined THEN c ELSE old

\* res.contentBody = content
IcptCapture(old, c) == c

\* variants: a bound copy of the original is installed (res.send =
\* send.bind(res)); the interceptor is left installed
IcptRestoreBound(cur, s) == Wrap(s)
IcptRestoreSkipped(cur, s) == cur
\* variant: the original is reinstalled only over the interceptor itself
IcptRestoreIfOwn(cur, s) == IF cur[1] = "icpt" THEN s ELSE cur

\* res.send = send
IcptRestore(cur, s) == s

\* variant: the content is rewritten before it is passed on
DelegatedRedacted(c) == "redacted"

\* res.send(content): the argument of the delegated call
Delegated(c) == c

\* the arrow function has a block body with no return statement
IcptResult(r) == Returned(Undefined)

\* variant: the failure of the delegated call is caught and dropped
IcptOnThrowSwallowed(r) == Returned(Undefined)

\* no try/catch around res.send(content)
IcptOnThrow(r) == r

\* a call of a function value f on response e with content c: the new stack
StartPc(f) == IF f[1] = "icpt" THEN IcptOrder[1] ELSE "body"
\* variant: every interceptor works on the response of the first exchange
ThisOfShared(f, e) == IF f[1] = "icpt" THEN 1 ELSE e
\* the interceptor works on the res of its closure, any other function on the
\* response it is called on
ThisOf(f, e) == IF f[1] = "icpt" THEN f[2] ELSE e
Push(stk, f, e, c) == Append(stk, Frame(f, ThisOf(f, e), StartPc(f), c))
Enter(f, e, c) ==
  /\ origCalls' = IF f = Orig THEN [origCalls EXCEPT ![ThisOf(f, e)] = Append(@, c)]
                  ELSE origCalls
  /\ icptRuns' = IF f[1] = "icpt" THEN [icptRuns EXCEPT ![ThisOf(f, e)] = @ + 1]
                 ELSE icptRuns

Event(ev, c) == [ev |-> ev, c |-> c]
Sends(e) == SelectSeq(hist[e], LAMBDA h : h.ev \in {"send", "ref"})

\* the host acts for exchange e in a turn of its own, while the exchange is live
HostTurn(e) == ret.kind = None /\ stack = <<>> /\ ~finished[e]
EventsOf(e) ==
  Len(Sends(e)) + (IF wrapped[e] THEN 1 ELSE 0)
  + (IF errs[e].mw = "LoggerError" THEN 1 ELSE 0)
  + (IF errs[e].listener = "LoggerError" THEN 1 ELSE 0)
RECURSIVE EventsUpTo(_)
EventsUpTo(n) == IF n = 0 THEN 0 ELSE EventsOf(n) + EventsUpTo(n - 1)
HostEvents == EventsUpTo(NumExchanges)
\* the budget, and one choice more on an exchange that took a wrapper and every
\* other choice made so far
MayAct(e) ==
  \/ HostEvents < MaxHostEvents
  \/ HostEvents = MaxHostEvents /\ EventsOf(e) = HostEvents /\ wrapped[e]
\* calling an undefined logger raises a TypeError; a logger function may fail
LoggerMayThrow(e, err) ==
  IF logger = Undefined THEN err = "TypeError" ELSE err = "LoggerError" /\ MayAct(e)
\* a handler (or, after a middleware error, an error handler) has been reached
HandlerReached(e) == nextCalls[e] > 0 \/ errs[e].mw # None

\* ------------------------------------------------------------- construction
Construct(lg) ==
  /\ logger = "unbuilt"
  /\ logger' = lg
  /\ constructError' = ConstructRaises(lg)
  /\ UNCHANGED <<req, send, contentBody, listeners, finished, log, stack, ret,
                 nextCalls, hist, origCalls, icptRuns, outcome, errs, icptRef, wrapped>>

\* ------------------------------------------------------------- middleware
\* the host invokes the middleware once per inbound exchange, in arrival order
Arrive(e) ==
  /\ logger # "unbuilt" /\ ~constructError
  /\ stack = <<>> /\ ret.kind = None
  /\ req[e] = NoReq
  /\ \A d \in Exchanges : d < e => req[d] # NoReq
  /\ req' = [req EXCEPT ![e] = RequestOf(e)]
  /\ stack' = <<Frame(Mw, e, MwOrder[1], Undefined)>>
  /\ UNCHANGED <<logger, constructError, send, contentBody, listeners, finished, log,
                 ret, nextCalls, hist, origCalls, icptRuns, outcome, errs, icptRef,
                 wrapped>>

MwLog ==
  /\ At("mw", "log")
  /\ \/ /\ logger = LoggerFn
        /\ log' = Append(log, ReceiptEntry(Top.e, req[Top.e]))
        /\ stack' = SetTop(After(MwOrder, "log"), FALSE)
        /\ UNCHANGED errs
     \/ /\ \E err \in {"TypeError", "LoggerError"} :
             /\ LoggerMayThrow(Top.e, err)
             /\ errs' = [errs EXCEPT ![Top.e].mw = err]
        /\ stack' = Pop
        /\ UNCHANGED log
  /\ UNCHANGED <<logger, constructError, req, send, contentBody, listeners, finished,
                 ret, nextCalls, hist, origCalls, icptRuns, outcome, icptRef, wrapped>>

MwInstall ==
  /\ At("mw", "install")
  /\ send' = [send EXCEPT ![Top.e] = InstalledSend(Top.e, send[Top.e])]
  /\ icptRef' = [icptRef EXCEPT ![Top.e] = InstalledSend(Top.e, send[Top.e])]
  /\ stack' = SetTop(After(MwOrder, "install"), FALSE)
  /\ UNCHANGED <<logger, constructError, req, contentBody, listeners, finished, log,
                 ret, nextCalls, hist, origCalls, icptRuns, outcome, errs, wrapped>>

MwOn ==
  /\ At("mw", "on")
  /\ listeners' = [listeners EXCEPT ![Top.e] = @ + 1]
  /\ stack' = SetTop(After(MwOrder, "on"), FALSE)
  /\ UNCHANGED <<logger, constructError, req, send, contentBody, finished, log, ret,
                 nextCalls, hist, origCalls, icptRuns, outcome, errs, icptRef, wrapped>>

MwNext ==
  /\ At("mw", "next")
  /\ nextCalls' = [nextCalls EXCEPT ![Top.e] = @ + 1]
  /\ stack' = SetTop(After(MwOrder, "next"), FALSE)
  /\ UNCHANGED <<logger, constructError, req, send, contentBody, listeners, finished,
                 log, ret, hist, origCalls, icptRuns, outcome, errs, icptRef, wrapped>>

MwReturn ==
  /\ At("mw", "done")
  /\ ret.kind = None
  /\ stack' = Pop
  /\ UNCHANGED <<logger, constructError, req, send, contentBody, listeners, finished,
                 log, ret, nextCalls, hist, origCalls, icptRuns, outcome, errs, icptRef,
                 wrapped>>

\* ------------------------------------------------------------- interceptor
IcptCaptureStep ==
  /\ At("icpt", "capture")
  /\ contentBody' = [contentBody EXCEPT ![Top.e] = IcptCapture(@, Top.arg)]
  /\ stack' = SetTop(After(IcptOrder, "capture"), FALSE)
  /\ UNCHANGED <<logger, constructError, req, send, listeners, finished, log, ret,
                 nextCalls, hist, origCalls, icptRuns, outcome, errs, icptRef, wrapped>>

IcptRestoreStep ==
  /\ At("icpt", "restore")
  /\ send' = [send EXCEPT ![Top.e] = IcptRestore(@, Top.fn[3])]
  /\ stack' = SetTop(After(IcptOrder, "restore"), FALSE)
  /\ UNCHANGED <<logger, constructError, req, contentBody, listeners, finished, log,
                 ret, nextCalls, hist, origCalls, icptRuns, outcome, errs, icptRef,
                 wrapped>>

\* res.send(content): whatever is installed in the slot now
IcptDelegateStep ==
  /\ At("icpt", "delegate")
  /\ Len(stack) < MaxDepth
  /\ stack' = Push(SetTop("delegate", TRUE), send[Top.e], Top.e, Delegated(Top.arg))
  /\ Enter(send[Top.e], Top.e, Delegated(Top.arg))
  /\ UNCHANGED <<logger, constructError, req, send, contentBody, listeners, finished,
                 log, ret, nextCalls, hist, outcome, errs, icptRef, wrapped>>

IcptResume ==
  /\ Awaiting("icpt") /\ ret.kind = "return"
  /\ outcome' = [outcome EXCEPT !.orig = ret, !.e = Top.e, !.c = Top.arg]
  /\ stack' = SetTop(After(IcptOrder, Top.pc), FALSE)
  /\ ret' = NoRet
  /\ UNCHANGED <<logger, constructError, req, send, contentBody, listeners, finished,
                 log, nextCalls, hist, origCalls, icptRuns, errs, icptRef, wrapped>>

IcptReturn ==
  /\ At("icpt", "done")
  /\ outcome' = [outcome EXCEPT !.icpt = IcptResult(outcome.orig)]
  /\ ret' = IcptResult(outcome.orig)
  /\ stack' = Pop
  /\ UNCHANGED <<logger, constructError, req, send, contentBody, listeners, finished,
                 log, nextCalls, hist, origCalls, icptRuns, errs, icptRef, wrapped>>

IcptThrow ==
  /\ Awaiting("icpt") /\ ret.kind = "throw"
  /\ outcome' = [outcome EXCEPT !.orig = ret, !.icpt = IcptOnThrow(ret),
                                !.e = Top.e, !.c = Top.arg]
  /\ ret' = IcptOnThrow(ret)
  /\ stack' = Pop
  /\ UNCHANGED <<logger, constructError, req, send, contentBody, listeners, finished,
                 log, nextCalls, hist, origCalls, icptRuns, errs, icptRef, wrapped>>

\* ------------------------------------------------------------- the host
\* a handler calls res.send(c): whatever is installed in the slot
HandlerSend(e, c) ==
  /\ HostTurn(e) /\ HandlerReached(e)
  /\ MayAct(e)
  /\ hist' = [hist EXCEPT ![e] = Append(@, Event("send", c))]
  /\ stack' = Push(stack, send[e], e, c)
  /\ Enter(send[e], e, c)
  /\ outcome' = [NoOutcome EXCEPT !.mark = Len(log)]
  /\ UNCHANGED <<logger, constructError, req, send, contentBody, listeners, finished,
                 log, ret, nextCalls, errs, icptRef, wrapped>>

\* a caller that kept the interceptor function invokes that function object itself
HandlerCallRef(e, c) ==
  /\ HostTurn(e) /\ HandlerReached(e)
  /\ icptRef[e] # <<None>>
  /\ Sends(e) # <<>> /\ MayAct(e)
  /\ hist' = [hist EXCEPT ![e] = Append(@, Event("ref", c))]
  /\ stack' = Push(stack, icptRef[e], e, c)
  /\ Enter(icptRef[e], e, c)
  /\ outcome' = [NoOutcome EXCEPT !.mark = Len(log)]
  /\ UNCHANGED <<logger, constructError, req, send, contentBody, listeners, finished,
                 log, ret, nextCalls, errs, icptRef, wrapped>>

\* another component wraps the pending interceptor: res.send = W, W delegating
\* to the operation it found installed
InstallWrapper(e) ==
  /\ HostTurn(e) /\ nextCalls[e] > 0
  /\ ~wrapped[e] /\ MayAct(e)
  /\ send[e] = icptRef[e]
  /\ send' = [send EXCEPT ![e] = Wrap(@)]
  /\ wrapped' = [wrapped EXCEPT ![e] = TRUE]
  /\ UNCHANGED <<logger, constructError, req, contentBody, listeners, finished, log,
                 stack, ret, nextCalls, hist, origCalls, icptRuns, outcome, errs,
                 icptRef>>

WrapDelegate ==
  /\ At("wrap", "body")
  /\ Len(stack) < MaxDepth
  /\ stack' = Push(SetTop("body", TRUE), Top.fn[2], Top.e, Top.arg)
  /\ Enter(Top.fn[2], Top.e, Top.arg)
  /\ UNCHANGED <<logger, constructError, req, send, contentBody, listeners, finished,
                 log, ret, nextCalls, hist, outcome, errs, icptRef, wrapped>>

\* the original res.send (the framework's): returns some value, throws, or first
\* re-sends a converted payload through this.send
OrigReturn(r) ==
  /\ At("orig", "body")
  /\ Top.arg \in Contents => Top.arg = "str"
  /\ ret' = Returned(r)
  /\ stack' = Pop
  /\ UNCHANGED <<logger, constructError, req, send, contentBody, listeners, finished,
                 log, nextCalls, hist, origCalls, icptRuns, outcome, errs, icptRef,
                 wrapped>>

OrigThrow ==
  /\ At("orig", "body")
  /\ ret' = Thrown("SendError")
  /\ stack' = Pop
  /\ UNCHANGED <<logger, constructError, req, send, contentBody, listeners, finished,
                 log, nextCalls, hist, origCalls, icptRuns, outcome, errs, icptRef,
                 wrapped>>

OrigReenter ==
  /\ At("orig", "body")
  /\ Top.arg = "obj"
  /\ Len(stack) < MaxDepth
  /\ stack' = Push(SetTop("body", TRUE), send[Top.e], Top.e, Json)
  /\ Enter(send[Top.e], Top.e, Json)
  /\ UNCHANGED <<logger, constructError, req, send, contentBody, listeners, finished,
                 log, ret, nextCalls, hist, outcome, errs, icptRef, wrapped>>

\* no room for the callee's frame: the call itself raises a RangeError in the caller
StackOverflow ==
  /\ At("icpt", "delegate") \/ At("wrap", "body") \/ (At("orig", "body") /\ Top.arg = "obj")
  /\ Len(stack) >= MaxDepth
  /\ stack' = SetTop(Top.pc, TRUE)
  /\ ret' = Thrown("RangeError")
  /\ UNCHANGED <<logger, constructError, req, send, contentBody, listeners, finished,
                 log, nextCalls, hist, origCalls, icptRuns, outcome, errs, icptRef,
                 wrapped>>

\* a frame of the host's (the original, the wrapper) gets its callee's completion
\* and completes the same way
HostFrameComplete ==
  /\ Awaiting("orig") \/ Awaiting("wrap")
  /\ stack' = Pop
  /\ UNCHANGED <<logger, constructError, req, send, contentBody, listeners, finished,
                 log, ret, nextCalls, hist, origCalls, icptRuns, outcome, errs, icptRef,
                 wrapped>>

\* the handler gets the completion of its res.send call: the returned value, or
\* the exception, which it (or the router) catches
HostResume ==
  /\ stack = <<>> /\ ret.kind # None
  /\ ret' = NoRet
  /\ outcome' = NoOutcome
  /\ UNCHANGED <<logger, constructError, req, send, contentBody, listeners, finished,
                 log, stack, nextCalls, hist, origCalls, icptRuns, errs, icptRef,
                 wrapped>>

\* the transport emits "finish" (once, in a turn of its own) and the listeners run
Finish(e) ==
  /\ stack = <<>> /\ ret.kind = None
  /\ req[e] # NoReq
  /\ ~finished[e]
  /\ finished' = [finished EXCEPT ![e] = TRUE]
  /\ hist' = [hist EXCEPT ![e] = Append(@, Event("finish", None))]
  /\ \/ /\ listeners[e] = 0
        /\ UNCHANGED <<log, errs>>
     \/ /\ listeners[e] > 0
        /\ logger = LoggerFn
        /\ log' = Append(log, SendEntry(e, contentBody[e]))
        /\ UNCHANGED errs
     \/ /\ listeners[e] > 0
        /\ \E err \in {"TypeError", "LoggerError"} :
             /\ LoggerMayThrow(e, err)
             /\ errs' = [errs EXCEPT ![e].listener = err]
        /\ UNCHANGED log
  /\ UNCHANGED <<logger, constructError, req, send, contentBody, listeners, stack, ret,
                 nextCalls, origCalls, icptRuns, outcome, icptRef, wrapped>>

\* ------------------------------------------------------------- specification
Next ==
  \/ \E lg \in Loggers : Construct(lg)
  \/ \E e \in Exchanges : Arrive(e)
  \/ MwLog
  \/ MwInstall
  \/ MwOn
  \/ MwNext
  \/ MwReturn
  \/ IcptCaptureStep
  \/ IcptRestoreStep
  \/ IcptDelegateStep
  \/ IcptResume
  \/ IcptReturn
  \/ IcptThrow
  \/ \E e \in Exchanges, c \in Contents : HandlerSend(e, c)
  \/ \E e \in Exchanges, c \in Contents : HandlerCallRef(e, c)
  \/ \E e \in Exchanges : InstallWrapper(e)
  \/ WrapDelegate
  \/ \E r \in RetVals : OrigReturn(r)
  \/ OrigThrow
  \/ OrigReenter
  \/ StackOverflow
  \/ HostFrameComplete
  \/ HostResume
  \/ \E e \in Exchanges : Finish(e)

Spec == Init /\ [][Next]_vars

\* a synchronous call chain runs to completion: while a frame is on the stack
\* the engine executes its next statement
Run ==
  \/ MwLog \/ MwInstall \/ MwOn \/ MwNext \/ MwReturn
  \/ IcptCaptureStep \/ IcptRestoreStep \/ IcptDelegateStep
  \/ IcptResume \/ IcptReturn \/ IcptThrow
  \/ WrapDelegate
  \/ (\E r \in RetVals : OrigReturn(r)) \/ OrigThrow \/ OrigReenter
  \/ StackOverflow
  \/ HostFrameComplete

FairSpec == Spec /\ WF_vars(Run)

\* ------------------------------------------------------------- observations
FramesOf(kind, e) == {i \in 1..Len(stack) : stack[i].fn[1] = kind /\ stack[i].e = e}
\* the middleware invocation of exchange e returned normally
MwRan(e) == req[e] # NoReq /\ errs[e].mw = None /\ FramesOf("mw", e) = {}
EntriesOf(m, e) == SelectSeq(log, LAMBDA x : x.marker = m /\ x.ex = e)
SendEntries(e) == EntriesOf("SEND >>>", e)
ReceiptEntries(e) == EntriesOf("RECV <<<", e)
ViaSlotOnly(e) == \A i \in 1..Len(Sends(e)) : Sends(e)[i].ev = "send"
Quiet == stack = <<>> /\ ret.kind = None

\* ------------------------------------------------------------- claims

\* C1: when the middleware has run and res.send is invoked exactly once, with C,
\* before "finish", the send entry emitted at "finish" carries exactly C.
C1_SingleSendLogged ==
  \A e \in Exchanges :
    (MwRan(e) /\ finished[e] /\ Len(Sends(e)) = 1 /\ ViaSlotOnly(e)) =>
      /\ \A i \in 1..Len(SendEntries(e)) : SendEntries(e)[i].vals = <<Sends(e)[1].c>>
      /\ errs[e].listener = None => Len(SendEntries(e)) = 1

C1_Witness ==
  \E e \in Exchanges :
    /\ MwRan(e) /\ finished[e]
    /\ hist[e] = <<Event("send", "obj"), Event("finish", None)>>
    /\ origCalls[e] = <<"obj", Json>>
    /\ SendEntries(e) = <<[marker |-> "SEND >>>", ex |-> e, vals |-> <<"obj">>]>>

\* C2: once an interceptor invocation is over, however the delegated call ended,
\* res.send is the very operation that was installed before the middleware ran.
C2_OriginalReinstalled ==
  \A e \in Exchanges :
    (icptRuns[e] >= 1 /\ FramesOf("icpt", e) = {}) => send[e] = Orig

C2_Witness ==
  \E e \in Exchanges :
    /\ icptRuns[e] = 1 /\ stack = <<>> /\ ret = Thrown("SendError")
    /\ wrapped[e] /\ send[e] = Orig

\* C3: the interceptor returns to its caller exactly the value the original
\* returned for the same content.
C3_ResultPassedThrough ==
  outcome.icpt.kind = "return" => outcome.icpt = outcome.orig

\* C4: of two res.send calls in one exchange only the first is captured and
\* logged; the second goes straight to the original, leaves contentBody alone,
\* and its content is in no log entry of the exchange.
C4_OnlyFirstCaptured ==
  \A e \in Exchanges :
    (MwRan(e) /\ ViaSlotOnly(e) /\ Len(Sends(e)) >= 2) =>
      /\ icptRuns[e] = 1
      /\ contentBody[e] = Sends(e)[1].c
      /\ \E i \in 1..Len(origCalls[e]) : i >= 2 /\ origCalls[e][i] = Sends(e)[2].c
      /\ \A i \in 1..Len(SendEntries(e)) :
           /\ SendEntries(e)[i].vals = <<Sends(e)[1].c>>
           /\ Sends(e)[2].c # Sends(e)[1].c => SendEntries(e)[i].vals # <<Sends(e)[2].c>>

C4_Witness ==
  \E e \in Exchanges :
    /\ hist[e] = <<Event("send", "str"), Event("send", "obj"), Event("finish", None)>>
    /\ contentBody[e] = "str"
    /\ origCalls[e] = <<"str", "obj", Json>>
    /\ SendEntries(e) = <<[marker |-> "SEND >>>", ex |-> e, vals |-> <<"str">>]>>

\* C5: when "finish" fires and res.send was never invoked, the listener still
\* emits exactly one send entry, it carries the absent value, and nothing but a
\* failing logger raises an error.
C5_AbsentLogged ==
  \A e \in Exchanges :
    (MwRan(e) /\ finished[e] /\ Sends(e) = <<>>) =>
      /\ errs[e].listener \in {None, "LoggerError"}
      /\ errs[e].listener = None =>
           SendEntries(e) = <<[marker |-> "SEND >>>", ex |-> e, vals |-> <<Undefined>>]>>
      /\ errs[e].listener # None => SendEntries(e) = <<>>

C5_Witness ==
  \E e \in Exchanges :
    /\ MwRan(e) /\ finished[e] /\ hist[e] = <<Event("finish", None)>>
    /\ errs[e].listener = None
    /\ Len(SendEntries(e)) = 1

\* C6: in the shared log every send entry of an exchange comes after a receipt
\* entry of the same exchange, however the exchanges interleave.
C6_ReceiptBeforeSend ==
  \A i \in 1..Len(log) :
    log[i].marker = "SEND >>>" =>
      \E j \in 1..(i - 1) : log[j].marker = "RECV <<<" /\ log[j].ex = log[i].ex

C6_Witness ==
  /\ Len(log) = 4
  /\ log[1].marker = "RECV <<<" /\ log[1].ex = 1
  /\ log[2].marker = "RECV <<<" /\ log[2].ex = 2
  /\ log[3].marker = "SEND >>>" /\ log[3].ex = 2
  /\ log[4].marker = "SEND >>>" /\ log[4].ex = 1

\* C7: the receipt entry, carrying the request's own (method, url, hostname), is
\* handed to the logger before res.send is replaced, before the "finish"
\* listener is registered and before next() is invoked.
C7_ReceiptFirst ==
  \A e \in Exchanges :
    (send[e] # Orig \/ icptRef[e] # <<None>> \/ listeners[e] > 0 \/ nextCalls[e] > 0) =>
      ReceiptEntries(e) =
        <<[marker |-> "RECV <<<", ex |-> e,
           vals |-> <<req[e].method, req[e].url, req[e].hostname>>]>>

C7_Witness ==
  \E e \in Exchanges :
    /\ At("mw", "install") /\ Top.e = e
    /\ Len(ReceiptEntries(e)) = 1
    /\ send[e] = Orig /\ listeners[e] = 0 /\ nextCalls[e] = 0

\* C8: on a middleware invocation whose logger call does not throw, next() is
\* invoked exactly once, within the invocation, after the interceptor is
\* installed and the listener registered, and never again.
C8_NextExactlyOnce ==
  \A e \in Exchanges :
    /\ nextCalls[e] <= 1
    /\ nextCalls[e] = 1 => (send[e] # Orig \/ icptRuns[e] >= 1) /\ icptRef[e] # <<None>>
                           /\ listeners[e] = 1
    /\ MwRan(e) => nextCalls[e] = 1

C8_Witness ==
  \E e \in Exchanges :
    /\ MwRan(e) /\ finished[e] /\ icptRuns[e] >= 1 /\ Len(SendEntries(e)) = 1
    /\ nextCalls[e] = 1

\* C9: building the middleware without a logger is reported as an error when it
\* is built, not at the first request the middleware handles.
C9_MissingLoggerRejected ==
  /\ logger = Undefined => constructError
  /\ \A e \in Exchanges : errs[e].mw # "TypeError"

\* C10: when the original throws as the interceptor delegates C to it, the same
\* failure reaches the interceptor's caller, the interceptor logs nothing, and
\* the response keeps contentBody = C with the original reinstalled.
C10_FailurePropagates ==
  outcome.orig.kind = "throw" =>
    /\ outcome.icpt = outcome.orig
    /\ ret = outcome.orig
    /\ contentBody[outcome.e] = outcome.c
    /\ send[outcome.e] = Orig
    /\ Len(log) = outcome.mark

C10_Witness ==
  /\ outcome.orig = Thrown("SendError")
  /\ outcome.icpt = Thrown("SendError")
  /\ stack = <<>>
  /\ outcome.c = "obj" /\ contentBody[outcome.e] = "obj"

\* C11: when the logger throws on the receipt entry the failure leaves the
\* middleware at once and nothing else of its body has happened: res.send is
\* still the original, no interceptor exists, no listener is registered and
\* next() was not invoked; when the logger throws on the send entry the failure
\* leaves the "finish" listener and no send entry is written.
C11_LoggerFailureSurfaces ==
  \A e \in Exchanges :
    /\ errs[e].mw # None =>
         /\ errs[e].mw = (IF logger = Undefined THEN "TypeError" ELSE "LoggerError")
         /\ FramesOf("mw", e) = {}
         /\ send[e] = Orig /\ icptRef[e] = <<None>> /\ icptRuns[e] = 0
         /\ listeners[e] = 0
         /\ nextCalls[e] = 0
         /\ EntriesOf("RECV <<<", e) = <<>>
    /\ errs[e].listener # None =>
         /\ errs[e].listener = (IF logger = Undefined THEN "TypeError" ELSE "LoggerError")
         /\ finished[e] /\ listeners[e] = 1
         /\ SendEntries(e) = <<>>

C11_Witness ==
  \E e, d \in Exchanges :
    /\ errs[e].mw = "LoggerError" /\ stack = <<>> /\ req[e] # NoReq
    /\ send[e] = Orig /\ nextCalls[e] = 0
    /\ errs[d].listener = "LoggerError" /\ contentBody[d] = Undefined

\* C12: on an exchange the middleware ran on once, the send entries handed to
\* the logger are as many as the "finish" signals fired, none or one: no send
\* entry exists before the signal or without it, and no res.send call, however
\* many are made, produces one.
C12_SendEntryPerFinish ==
  \A e \in Exchanges :
    LET fired == Len(SelectSeq(hist[e], LAMBDA h : h.ev = "finish"))
        failed == IF errs[e].listener # None THEN 1 ELSE 0
    IN /\ fired = (IF finished[e] THEN 1 ELSE 0)
       /\ Len(SendEntries(e)) <= fired
       /\ MwRan(e) => Len(SendEntries(e)) + failed = fired

C12_Witness ==
  \E e, d \in Exchanges :
    /\ MwRan(e) /\ finished[e] /\ Len(Sends(e)) = 1 /\ Len(SendEntries(e)) = 1
    /\ MwRan(d) /\ ~finished[d] /\ Len(Sends(d)) = 1 /\ Quiet
    /\ contentBody[d] # Undefined /\ SendEntries(d) = <<>>

\* C13: whatever sequence of res.send calls the handler makes, the original
\* operation is entered once per call, in the handler's order and with the
\* handler's own content, as it is when no middleware is installed; the only
\* other calls it sees are its own nested re-sends, each right after the object
\* that caused it.
C13_DelegationTransparent ==
  \A e \in Exchanges :
    LET direct == SelectSeq(origCalls[e], LAMBDA c : c # Json)
        called == [i \in 1..Len(Sends(e)) |-> Sends(e)[i].c]
    IN /\ Len(direct) <= Len(called)
       /\ direct = SubSeq(called, 1, Len(direct))
       /\ stack = <<>> => direct = called
       /\ \A i \in 1..Len(origCalls[e]) :
            origCalls[e][i] = Json => i > 1 /\ origCalls[e][i - 1] = "obj"

C13_Witness ==
  \E e \in Exchanges :
    /\ MwRan(e) /\ ViaSlotOnly(e) /\ Quiet
    /\ Len(Sends(e)) = 2 /\ Sends(e)[1].c = "obj" /\ Sends(e)[2].c = "str"
    /\ origCalls[e] = <<"obj", Json, "str">>

\* C14: an interceptor invocation captures, then restores, then delegates: the
\* function it calls is the original, and from the moment the original starts
\* to run res.contentBody already holds the content of the call and res.send is
\* already the original.
C14_CaptureRestoreDelegate ==
  \A i \in 1..(Len(stack) - 1) :
    (stack[i].fn[1] = "icpt" /\ stack[i].wait) =>
      /\ stack[i + 1].fn = Orig
      /\ stack[i + 1].arg = stack[i].arg
      /\ contentBody[stack[i].e] = stack[i].arg
      /\ send[stack[i].e] = Orig

C14_Witness ==
  /\ Len(stack) = 2 /\ At("orig", "body")
  /\ stack[1].fn[1] = "icpt" /\ stack[1].wait /\ stack[1].arg = "obj"
  /\ contentBody[stack[1].e] = "obj" /\ send[stack[1].e] = Orig

\* C15: when the original, while handling C, calls the installed res.send again
\* with C', the nested call enters the original directly; no second interceptor
\* frame is ever stacked on the first, res.contentBody stays C throughout, the
\* original is stacked at most twice, and the chain runs to completion.
C15_ReentryTerminates ==
  /\ [](/\ \A i \in 1..(Len(stack) - 1) :
            (stack[i].fn = Orig /\ stack[i].wait) =>
              /\ stack[i + 1].fn = Orig /\ stack[i + 1].arg = Json
              /\ \A j \in 1..(i - 1) :
                   stack[j].fn[1] = "icpt" => contentBody[stack[j].e] = stack[j].arg
        /\ \A e \in Exchanges :
             /\ Cardinality(FramesOf("icpt", e)) <= 1
             /\ Cardinality(FramesOf("orig", e)) <= 2
             /\ ViaSlotOnly(e) => icptRuns[e] <= 1)
  /\ ((\E i \in 1..Len(stack) : stack[i].fn = Orig /\ stack[i].wait) ~> stack = <<>>)

C15_Witness ==
  /\ Len(stack) = 3 /\ At("orig", "body") /\ Top.arg = Json
  /\ stack[1].fn[1] = "icpt" /\ stack[1].wait /\ stack[1].arg = "obj"
  /\ stack[2].fn = Orig /\ stack[2].wait /\ stack[2].arg = "obj"
  /\ icptRuns[Top.e] = 1 /\ contentBody[Top.e] = "obj" /\ send[Top.e] = Orig

\* C16: once the middleware has run on an exchange whose res.send nobody else
\* reassigns and whose handler calls only res.send, the exchange is in exactly
\* one of two states whenever the interceptor is not between its two
\* assignments: Pending (the interceptor is installed and res.contentBody was
\* never written) or Sent (the original is installed and res.contentBody holds
\* the content of the first call); res.contentBody is written at most once.
C16_PendingOrSent ==
  \A e \in Exchanges :
    (MwRan(e) /\ ViaSlotOnly(e) /\ ~wrapped[e]) =>
      LET assigning == \E i \in FramesOf("icpt", e) : stack[i].pc = "restore"
          Pending == /\ send[e] = Icpt(e, Orig) /\ send[e] = icptRef[e]
                     /\ contentBody[e] = Undefined
          Sent == /\ send[e] = Orig
                  /\ Sends(e) # <<>> /\ contentBody[e] = Sends(e)[1].c
      IN /\ icptRuns[e] <= 1
         /\ icptRuns[e] = 0 => Pending
         /\ ~assigning => (Pending # Sent)

C16_Witness ==
  \E e, d \in Exchanges :
    /\ MwRan(e) /\ Sends(e) = <<>> /\ send[e] = Icpt(e, Orig)
    /\ contentBody[e] = Undefined
    /\ MwRan(d) /\ ViaSlotOnly(d) /\ ~wrapped[d] /\ Len(Sends(d)) = 2
    /\ send[d] = Orig /\ contentBody[d] = Sends(d)[1].c
    /\ Sends(d)[2].c # Sends(d)[1].c /\ Quiet

\* C17: with several exchanges in flight, the value in an exchange's send entry
\* is the content of that exchange's own first res.send call, or the absent
\* value when it made none, and a step of an interceptor changes res.send and
\* res.contentBody of no response but the one it was installed on.
C17_ExchangesIsolated ==
  /\ [](\A e \in Exchanges :
          (MwRan(e) /\ ViaSlotOnly(e)) =>
            \A i \in 1..Len(SendEntries(e)) :
              SendEntries(e)[i].vals =
                <<IF Sends(e) = <<>> THEN Undefined ELSE Sends(e)[1].c>>)
  /\ [][\A d \in Exchanges :
          (/\ \E i \in 1..Len(stack) : stack[i].fn[1] = "icpt"
           /\ \A i \in 1..Len(stack) : stack[i].fn[1] = "icpt" => stack[i].fn[2] # d)
          => (send'[d] = send[d] /\ contentBody'[d] = contentBody[d])]_vars

C17_Witness ==
  /\ hist[1] = <<Event("send", "obj"), Event("finish", None)>>
  /\ hist[2] = <<Event("send", "str"), Event("finish", None)>>
  /\ Len(log) = 4 /\ log[3].marker = "SEND >>>" /\ log[4].marker = "SEND >>>"
  /\ SendEntries(1) = <<[marker |-> "SEND >>>", ex |-> 1, vals |-> <<"obj">>]>>
  /\ SendEntries(2) = <<[marker |-> "SEND >>>", ex |-> 2, vals |-> <<"str">>]>>
  /\ contentBody[1] = "obj" /\ contentBody[2] = "str"

\* C18: when another component has put a wrapper W that delegates to the
\* interceptor in res.send, the first call through W leaves res.send the
\* operation that was there before the middleware ran, not W, and a second call
\* does not pass through W: it enters the original and not the interceptor.
C18_WrapperDiscarded ==
  \A e \in Exchanges :
    wrapped[e] =>
      /\ (icptRuns[e] >= 1 /\ ~\E i \in FramesOf("icpt", e) : stack[i].pc # "delegate") =>
           send[e] = Orig /\ send[e] # Wrap(icptRef[e])
      /\ (ViaSlotOnly(e) /\ Len(Sends(e)) >= 2) =>
           /\ FramesOf("wrap", e) = {} /\ FramesOf("icpt", e) = {}
           /\ icptRuns[e] = 1
           /\ \E i \in 2..Len(origCalls[e]) : origCalls[e][i] = Sends(e)[2].c

C18_Witness ==
  \E e \in Exchanges :
    /\ wrapped[e] /\ ViaSlotOnly(e) /\ Len(Sends(e)) = 2 /\ Quiet
    /\ send[e] = Orig /\ icptRuns[e] = 1
    /\ origCalls[e] = <<"str", "str">>

\* C19: when a caller kept the interceptor function and invokes it with C2 after
\* a first res.send, the body runs a second time: it overwrites res.contentBody
\* with C2 and enters the original a second time, with C2, and the send entry
\* logged afterwards carries C2.
C19_StaleReferenceReruns ==
  \A e \in Exchanges :
    (/\ Len(Sends(e)) = 2 /\ Sends(e)[1].ev = "send" /\ Sends(e)[2].ev = "ref"
     /\ stack = <<>>) =>
      /\ icptRuns[e] = 2
      /\ contentBody[e] = Sends(e)[2].c
      /\ send[e] = Orig
      /\ SelectSeq(origCalls[e], LAMBDA c : c # Json) = <<Sends(e)[1].c, Sends(e)[2].c>>
      /\ \A i \in 1..Len(SendEntries(e)) : SendEntries(e)[i].vals = <<Sends(e)[2].c>>

C19_Witness ==
  \E e \in Exchanges :
    /\ hist[e] = <<Event("send", "obj"), Event("ref", "str"), Event("finish", None)>>
    /\ icptRuns[e] = 2 /\ contentBody[e] = "str"
    /\ origCalls[e] = <<"obj", Json, "str">>
    /\ SendEntries(e) = <<[marker |-> "SEND >>>", ex |-> e, vals |-> <<"str">>]>>

====
